---- MODULE Spec2Model ----
(***************************************************************************)
(* Model of the rustdoc implementors script                                *)
(*   src/master/doc/sentry_contrib_native/sidebar-items.js                 *)
(* The script is an immediately invoked function of four lines:            *)
(*   1  var implementors = {};                                             *)
(*   2  implementors["sentry_contrib_native"]     = [ 5 records ];         *)
(*   3  implementors["sentry_contrib_native_sys"] = [ 8 records ];         *)
(*   4  if (window.register_implementors) { call it with implementors }    *)
(*      else { window.pending_implementors = implementors }                *)
(* JavaScript objects live on a heap and are handled by reference, so the  *)
(* model keeps a heap of mappings and stores references in the local       *)
(* variable, in the window slot and in the consumer's log.                 *)
(***************************************************************************)
EXTENDS Integers, Sequences, FiniteSets, TLC

\* ---- bounds of the model ----
\* how many times the host evaluates the script
MaxEvaluations == 2
\* how many other producer scripts of the same documentation site run
MaxOthers == 2

\* the JavaScript value undefined, for a reference
Undefined == 0

\* an empty JavaScript object: a mapping with no keys
EmptyObject == << >>

\* ---- the literal data of the script ----
\* an <a class=.. href=.. title=..>label</a> element of a record's text
Anchor(class, href, title, label) ==
  [class |-> class, href |-> href, title |-> title, label |-> label]

\* the trait anchor every record's text starts with
CopyTrait ==
  Anchor("trait", "https://doc.rust-lang.org/nightly/core/marker/trait.Copy.html",
         "trait core::marker::Copy", "Copy")

\* one record {"text": "impl <trait> for <type>", "synthetic": false, "types": [..]}
Impl(class, href, title, label, types) ==
  [text |-> [impl |-> CopyTrait, for |-> Anchor(class, href, title, label)],
   synthetic |-> FALSE,
   types |-> types]

\* the array literal assigned on line 2
NativeRecords ==
  << Impl("struct", "sentry_contrib_native/struct.Uuid.html",
          "struct sentry_contrib_native::Uuid", "Uuid",
          <<"sentry_contrib_native::event::Uuid">>),
     Impl("enum", "sentry_contrib_native/options/enum.Ownership.html",
          "enum sentry_contrib_native::options::Ownership", "Ownership",
          <<"sentry_contrib_native::options::Ownership">>),
     Impl("enum", "sentry_contrib_native/enum.TransportShutdown.html",
          "enum sentry_contrib_native::TransportShutdown", "Shutdown",
          <<"sentry_contrib_native::transport::Shutdown">>),
     Impl("enum", "sentry_contrib_native/enum.Level.html",
          "enum sentry_contrib_native::Level", "Level",
          <<"sentry_contrib_native::Level">>),
     Impl("enum", "sentry_contrib_native/enum.Consent.html",
          "enum sentry_contrib_native::Consent", "Consent",
          <<"sentry_contrib_native::Consent">>) >>

\* the array literal assigned on line 3
SysRecords ==
  << Impl("struct", "sentry_contrib_native_sys/struct.Options.html",
          "struct sentry_contrib_native_sys::Options", "Options",
          <<"sentry_contrib_native_sys::Options">>),
     Impl("union", "sentry_contrib_native_sys/union.Value.html",
          "union sentry_contrib_native_sys::Value", "Value",
          <<"sentry_contrib_native_sys::Value">>),
     Impl("struct", "sentry_contrib_native_sys/struct.Uuid.html",
          "struct sentry_contrib_native_sys::Uuid", "Uuid",
          <<"sentry_contrib_native_sys::Uuid">>),
     Impl("enum", "sentry_contrib_native_sys/enum.Level.html",
          "enum sentry_contrib_native_sys::Level", "Level",
          <<"sentry_contrib_native_sys::Level">>),
     Impl("enum", "sentry_contrib_native_sys/enum.ValueType.html",
          "enum sentry_contrib_native_sys::ValueType", "ValueType",
          <<"sentry_contrib_native_sys::ValueType">>),
     Impl("enum", "sentry_contrib_native_sys/enum.UserConsent.html",
          "enum sentry_contrib_native_sys::UserConsent", "UserConsent",
          <<"sentry_contrib_native_sys::UserConsent">>),
     Impl("struct", "sentry_contrib_native_sys/struct.Transport.html",
          "struct sentry_contrib_native_sys::Transport", "Transport",
          <<"sentry_contrib_native_sys::Transport">>),
     Impl("struct", "sentry_contrib_native_sys/struct.Envelope.html",
          "struct sentry_contrib_native_sys::Envelope", "Envelope",
          <<"sentry_contrib_native_sys::Envelope">>) >>

\* the registry another producer script of the site hands over
OtherRegistry ==
  [k \in {"other_crate"} |->
     << Impl("struct", "other_crate/struct.Thing.html",
             "struct other_crate::Thing", "Thing", <<"other_crate::Thing">>) >>]

\* ---- JavaScript object operations ----
\* obj[key] = value: adds the key or replaces its value
SetKey(obj, key, value) ==
  [k \in (DOMAIN obj) \cup {key} |-> IF k = key THEN value ELSE obj[k]]

\* the trait a record is about, as its text names it
TraitPath(r) == r.text.impl.title

\* number of records of a mapping, over all its keys
RECURSIVE RecordCountOver(_, _)
RecordCountOver(obj, keys) ==
  IF keys = {} THEN 0
  ELSE LET k == CHOOSE x \in keys : TRUE
       IN Len(obj[k]) + RecordCountOver(obj, keys \ {k})

RecordCount(obj) == RecordCountOver(obj, DOMAIN obj)

VARIABLES
  window,        \* [register_implementors: BOOLEAN, pending_implementors: ref]
  heap,          \* the objects allocated so far, by reference 1..Len(heap)
  implementors,  \* the local variable of the running evaluation, a reference
  pc,            \* position of the script: "idle", "l2", "l3", "l4"
  log,           \* what the consumer received: <<[via, ref]>>
  evaluations,   \* how many times the host started the script
  others,        \* how many other producer scripts ran
  published,     \* history: one entry per execution of line 4
  slotWrites,    \* history: the writes of window.pending_implementors
  slotReads      \* history: how often the consumer read the slot

vars == <<window, heap, implementors, pc, log, evaluations, others,
          published, slotWrites, slotReads>>

Init ==
  /\ window = [register_implementors |-> FALSE, pending_implementors |-> Undefined]
  /\ heap = << >>
  /\ implementors = Undefined
  /\ pc = "idle"
  /\ log = << >>
  /\ evaluations = 0
  /\ others = 0
  /\ published = << >>
  /\ slotWrites = << >>
  /\ slotReads = 0

\* ---- the script ----
\* a bug: line 1 also clears the process-wide pending slot
Line1_ClearsSlot ==
  /\ pc = "idle"
  /\ evaluations < MaxEvaluations
  /\ heap' = Append(heap, EmptyObject)
  /\ implementors' = Len(heap) + 1
  /\ window' = [window EXCEPT !.pending_implementors = Undefined]
  /\ evaluations' = evaluations + 1
  /\ pc' = "l2"
  /\ UNCHANGED <<log, others, published, slotWrites, slotReads>>

\* line 1: the host starts the function; var implementors = {}
Line1 ==
  /\ pc = "idle"
  /\ evaluations < MaxEvaluations
  /\ heap' = Append(heap, EmptyObject)
  /\ implementors' = Len(heap) + 1
  /\ evaluations' = evaluations + 1
  /\ pc' = "l2"
  /\ UNCHANGED <<window, log, others, published, slotWrites, slotReads>>

\* a bug: the first record of line 2 is registered twice
Line2_Duplicate ==
  /\ pc = "l2"
  /\ heap' = [heap EXCEPT ![implementors] =
                SetKey(@, "sentry_contrib_native",
                       <<NativeRecords[1]>> \o NativeRecords)]
  /\ pc' = "l3"
  /\ UNCHANGED <<window, implementors, log, evaluations, others,
                 published, slotWrites, slotReads>>

\* a bug: line 2 already stores the half-built mapping in the pending slot
Line2_EarlyStore ==
  /\ pc = "l2"
  /\ heap' = [heap EXCEPT ![implementors] =
                SetKey(@, "sentry_contrib_native", NativeRecords)]
  /\ window' = [window EXCEPT !.pending_implementors = implementors]
  /\ slotWrites' = Append(slotWrites, [by |-> "this", ref |-> implementors])
  /\ pc' = "l3"
  /\ UNCHANGED <<implementors, log, evaluations, others, published, slotReads>>

\* line 2: implementors["sentry_contrib_native"] = [...]
Line2 ==
  /\ pc = "l2"
  /\ heap' = [heap EXCEPT ![implementors] =
                SetKey(@, "sentry_contrib_native", NativeRecords)]
  /\ pc' = "l3"
  /\ UNCHANGED <<window, implementors, log, evaluations, others,
                 published, slotWrites, slotReads>>

\* a bug: line 3 registers the key with an empty array
Line3_Empty ==
  /\ pc = "l3"
  /\ heap' = [heap EXCEPT ![implementors] =
                SetKey(@, "sentry_contrib_native_sys", << >>)]
  /\ pc' = "l4"
  /\ UNCHANGED <<window, implementors, log, evaluations, others,
                 published, slotWrites, slotReads>>

\* line 3: implementors["sentry_contrib_native_sys"] = [...]
Line3 ==
  /\ pc = "l3"
  /\ heap' = [heap EXCEPT ![implementors] =
                SetKey(@, "sentry_contrib_native_sys", SysRecords)]
  /\ pc' = "l4"
  /\ UNCHANGED <<window, implementors, log, evaluations, others,
                 published, slotWrites, slotReads>>

\* the history entry of one execution of line 4
PublishEntry ==
  [ref |-> implementors, value |-> heap[implementors],
   direct |-> window.register_implementors]

\* a bug: the mapping is stored in the slot even when the consumer was called
Line4_Both ==
  /\ pc = "l4"
  /\ published' = Append(published, PublishEntry)
  /\ IF window.register_implementors
       THEN log' = Append(log, [via |-> "call", ref |-> implementors])
       ELSE log' = log
  /\ window' = [window EXCEPT !.pending_implementors = implementors]
  /\ slotWrites' = Append(slotWrites, [by |-> "this", ref |-> implementors])
  /\ implementors' = Undefined
  /\ pc' = "idle"
  /\ UNCHANGED <<heap, evaluations, others, slotReads>>

\* a bug: without a consumer the mapping is dropped instead of stored
Line4_NoStore ==
  /\ pc = "l4"
  /\ published' = Append(published, PublishEntry)
  /\ IF window.register_implementors
       THEN log' = Append(log, [via |-> "call", ref |-> implementors])
       ELSE log' = log
  /\ implementors' = Undefined
  /\ pc' = "idle"
  /\ UNCHANGED <<window, heap, evaluations, others, slotWrites, slotReads>>

\* a bug: a value already in the slot is kept (slot = slot || implementors)
Line4_KeepPrior ==
  /\ pc = "l4"
  /\ published' = Append(published, PublishEntry)
  /\ IF window.register_implementors
       THEN /\ log' = Append(log, [via |-> "call", ref |-> implementors])
            /\ UNCHANGED <<window, slotWrites>>
       ELSE /\ window' = [window EXCEPT !.pending_implementors =
                            IF @ # Undefined THEN @ ELSE implementors]
            /\ slotWrites' = Append(slotWrites,
                 [by |-> "this", ref |-> window'.pending_implementors])
            /\ log' = log
  /\ implementors' = Undefined
  /\ pc' = "idle"
  /\ UNCHANGED <<heap, evaluations, others, slotReads>>

\* a bug: after the hand-over the script empties the mapping it built
Line4_ThenClear ==
  /\ pc = "l4"
  /\ published' = Append(published, PublishEntry)
  /\ IF window.register_implementors
       THEN /\ log' = Append(log, [via |-> "call", ref |-> implementors])
            /\ UNCHANGED <<window, slotWrites>>
       ELSE /\ window' = [window EXCEPT !.pending_implementors = implementors]
            /\ slotWrites' = Append(slotWrites, [by |-> "this", ref |-> implementors])
            /\ log' = log
  /\ heap' = [heap EXCEPT ![implementors] = EmptyObject]
  /\ implementors' = Undefined
  /\ pc' = "idle"
  /\ UNCHANGED <<evaluations, others, slotReads>>

\* a variant: a once-guard that skips the hand-over on a later evaluation
Line4_Guarded ==
  /\ pc = "l4"
  /\ IF Len(published) > 0
       THEN UNCHANGED <<published, log, window, slotWrites>>
       ELSE /\ published' = Append(published, PublishEntry)
            /\ IF window.register_implementors
                 THEN /\ log' = Append(log, [via |-> "call", ref |-> implementors])
                      /\ UNCHANGED <<window, slotWrites>>
                 ELSE /\ window' = [window EXCEPT !.pending_implementors = implementors]
                      /\ slotWrites' = Append(slotWrites,
                                              [by |-> "this", ref |-> implementors])
                      /\ log' = log
  /\ implementors' = Undefined
  /\ pc' = "idle"
  /\ UNCHANGED <<heap, evaluations, others, slotReads>>

\* line 4: if (window.register_implementors) {window.register_implementors(implementors);}
\*         else {window.pending_implementors = implementors;}   and the function returns
Line4 ==
  /\ pc = "l4"
  /\ published' = Append(published, PublishEntry)
  /\ IF window.register_implementors
       THEN /\ log' = Append(log, [via |-> "call", ref |-> implementors])
            /\ UNCHANGED <<window, slotWrites>>
       ELSE /\ window' = [window EXCEPT !.pending_implementors = implementors]
            /\ slotWrites' = Append(slotWrites, [by |-> "this", ref |-> implementors])
            /\ log' = log
  /\ implementors' = Undefined
  /\ pc' = "idle"
  /\ UNCHANGED <<heap, evaluations, others, slotReads>>

\* ---- the hosting page ----
\* the rendering host initialises: it installs window.register_implementors
\* and reads the pending slot once, taking a registry published before it
HostInit ==
  /\ pc = "idle"
  /\ ~window.register_implementors
  /\ window' = [window EXCEPT !.register_implementors = TRUE]
  /\ IF window.pending_implementors # Undefined
       THEN log' = Append(log, [via |-> "slot", ref |-> window.pending_implementors])
       ELSE log' = log
  /\ slotReads' = slotReads + 1
  /\ UNCHANGED <<heap, implementors, pc, evaluations, others, published, slotWrites>>

\* another producer script of the site runs to completion: it builds its
\* own registry and hands it over by the same test as line 4
OtherProducer ==
  /\ pc = "idle"
  /\ others < MaxOthers
  /\ others' = others + 1
  /\ heap' = Append(heap, OtherRegistry)
  /\ IF window.register_implementors
       THEN /\ log' = Append(log, [via |-> "call", ref |-> Len(heap) + 1])
            /\ UNCHANGED <<window, slotWrites>>
       ELSE /\ window' = [window EXCEPT !.pending_implementors = Len(heap) + 1]
            /\ slotWrites' = Append(slotWrites, [by |-> "other", ref |-> Len(heap) + 1])
            /\ log' = log
  /\ UNCHANGED <<implementors, pc, evaluations, published, slotReads>>

Next == Line1 \/ Line2 \/ Line3 \/ Line4 \/ HostInit \/ OtherProducer

Spec == Init /\ [][Next]_vars

\* ---- definitions the properties use ----
\* the two module keys of the script
ModuleKeys == {"sentry_contrib_native", "sentry_contrib_native_sys"}

\* references of the mappings whose build (lines 1-3) has completed
BuiltRefs ==
  {published[i].ref : i \in DOMAIN published}
    \cup (IF pc = "l4" THEN {implementors} ELSE {})

\* number of evaluations of the script that have returned
Completed == IF pc = "idle" THEN evaluations ELSE evaluations - 1

\* number of writes of the pending slot made by this script
ThisWrites == Cardinality({i \in DOMAIN slotWrites : slotWrites[i].by = "this"})

\* another producer stored its registry in the slot after this script did
Overwritten ==
  \E i, j \in DOMAIN slotWrites :
    i < j /\ slotWrites[i].by = "this" /\ slotWrites[j].by = "other"

\* C1: when the consumer handle is present at line 4, the step calls the
\* consumer exactly once with the built mapping (both module keys, 13
\* records) and leaves the pending slot at the value it had.
C1_DirectPublish ==
  [][(pc = "l4" /\ window.register_implementors) =>
       /\ log' = Append(log, [via |-> "call", ref |-> implementors])
       /\ DOMAIN heap'[implementors] = ModuleKeys
       /\ RecordCount(heap'[implementors]) = 13
       /\ window'.pending_implementors = window.pending_implementors]_vars

C1_Witness ==
  /\ pc = "idle"
  /\ window.pending_implementors = Undefined
  /\ Len(published) = 1 /\ published[1].direct
  /\ \E i \in DOMAIN log :
       /\ log[i] = [via |-> "call", ref |-> published[1].ref]
       /\ RecordCount(heap[log[i].ref]) = 13

\* C2: when no consumer handle is present at line 4, the step stores the
\* built mapping in the pending slot (exactly the two module keys, with 5
\* and 8 records) and the consumer is not called.
C2_DeferredPublish ==
  [][(pc = "l4" /\ ~window.register_implementors) =>
       /\ window'.pending_implementors = implementors
       /\ DOMAIN heap'[implementors] = ModuleKeys
       /\ Len(heap'[implementors]["sentry_contrib_native"]) = 5
       /\ Len(heap'[implementors]["sentry_contrib_native_sys"]) = 8
       /\ log' = log]_vars

C2_Witness ==
  /\ pc = "idle"
  /\ log = << >>
  /\ Len(published) = 1 /\ ~published[1].direct
  /\ window.pending_implementors = published[1].ref
  /\ DOMAIN heap[window.pending_implementors] = ModuleKeys

\* C3 as stated: the hand-over of line 4 runs at most once in the life of
\* the page, also when the host evaluates the script more than once.
C3_PublishedOnce == Len(published) <= 1

\* C3 amended: line 4 runs exactly once per evaluation of the script: the
\* number of hand-overs equals the number of evaluations that have returned,
\* every return from line 4 hands over once, and the count never decreases.
C3_OncePerEvaluation ==
  /\ [](Len(published) = Completed)
  /\ [][/\ Len(published') >= Len(published)
        /\ (pc = "l4" /\ pc' = "idle") => Len(published') = Len(published) + 1]_vars

C3_Witness ==
  /\ pc = "idle"
  /\ evaluations = 2
  /\ Len(published) = 2

C5_WrittenOnceReadOnce == ThisWrites <= 1 /\ slotReads <= 1

\* C5 amended: this script writes the pending slot at most once per
\* evaluation (never more writes than hand-overs), the consumer reads it at
\* most once, and a read happens only while no script is running and is not
\* combined with a write.
C5_WrittenOncePerEvaluation ==
  /\ [](ThisWrites <= Len(published) /\ slotReads <= 1)
  /\ [][slotReads' # slotReads =>
          pc = "idle" /\ pc' = "idle" /\ slotWrites' = slotWrites]_vars

C5_Witness ==
  /\ ThisWrites = 2
  /\ slotReads = 1
  /\ Len(published) = 2

\* C6: a mapping that was handed over is never changed afterwards: in every
\* later state it equals the value it had at the hand-over, records in the
\* same order.
C6_ImmutableAfterPublish ==
  \A i \in DOMAIN published : heap[published[i].ref] = published[i].value

C6_Witness ==
  /\ Len(published) = 1
  /\ pc = "l3"
  /\ heap[published[1].ref] = published[1].value
  /\ heap[implementors] # published[1].value

\* C7: in a built mapping, two records under the same module key and the
\* same trait never have the same types value.
C7_NoDuplicateRegistration ==
  \A r \in BuiltRefs : \A k \in DOMAIN heap[r] :
    \A i, j \in DOMAIN heap[r][k] :
      (i # j /\ TraitPath(heap[r][k][i]) = TraitPath(heap[r][k][j]))
        => heap[r][k][i].types # heap[r][k][j].types

C7_Witness ==
  /\ pc = "l4"
  /\ \E k \in DOMAIN heap[implementors] : \E i, j \in DOMAIN heap[implementors][k] :
       i # j /\ TraitPath(heap[implementors][k][i]) = TraitPath(heap[implementors][k][j])

\* C8: in a built mapping every module key maps to a non-empty sequence of
\* records.
C8_NonEmptySequences ==
  \A r \in BuiltRefs : \A k \in DOMAIN heap[r] : Len(heap[r][k]) > 0

C8_Witness ==
  /\ pc = "idle"
  /\ Len(published) >= 1
  /\ Cardinality(DOMAIN heap[published[1].ref]) = 2

\* C9: the build (lines 1-3) always goes through, gives a mapping equal to
\* the one every earlier build gave, and leaves the consumer handle, the
\* pending slot and the consumer's log unchanged.
C9_BuildPure ==
  /\ [](/\ pc = "l4" => \A i \in DOMAIN published :
                          heap[implementors] = published[i].value
        /\ pc = "l2" => ENABLED Line2
        /\ pc = "l3" => ENABLED Line3)
  /\ [][pc' \in {"l2", "l3", "l4"} =>
          window' = window /\ log' = log /\ slotWrites' = slotWrites]_vars

C9_Witness ==
  /\ pc = "l4"
  /\ Len(published) = 1
  /\ published[1].ref # implementors
  /\ heap[implementors] = published[1].value
  /\ window.pending_implementors # Undefined

\* C10: when no consumer handle is present and the pending slot already
\* holds a value, line 4 replaces it: afterwards the slot refers to this
\* script's mapping only, whose keys are the two module keys, and the value
\* held before is neither kept nor merged in.
C10_SlotReplaced ==
  [][(pc = "l4" /\ ~window.register_implementors
        /\ window.pending_implementors # Undefined) =>
       /\ window'.pending_implementors = implementors
       /\ window'.pending_implementors # window.pending_implementors
       /\ heap'[window'.pending_implementors] = heap[implementors]
       /\ DOMAIN heap'[window'.pending_implementors] = ModuleKeys
       /\ heap'[window.pending_implementors] = heap[window.pending_implementors]]_vars

C10_Witness ==
  /\ pc = "idle"
  /\ Len(slotWrites) = 2
  /\ slotWrites[1].by = "other" /\ slotWrites[2].by = "this"
  /\ window.pending_implementors = slotWrites[2].ref
  /\ "other_crate" \notin DOMAIN heap[window.pending_implementors]
  /\ "other_crate" \in DOMAIN heap[slotWrites[1].ref]

====
